---- MODULE Spec2Model ----
(***************************************************************************)
(* Meal-break compliance pipeline (gv_meal_break_law_compliance).          *)
(*                                                                         *)
(* A DataFrame is a sequence of rows; a row is a record whose fields are   *)
(* the columns.  Times of day are whole minutes after midnight of the      *)
(* dummy date that pd.to_datetime(format="%H:%M:%S") attaches, so a        *)
(* Timedelta is a number of minutes and total_seconds()/60 is exact.       *)
(* A date "YYYY-MM-DD" is the triple <<year, month, day>>.                 *)
(* employee_id values are numbered in their sort order.                    *)
(***************************************************************************)
EXTENDS Integers, Sequences, FiniteSets, TLC

VARIABLES
    pc,             \* the stage the run has reached
    error,          \* the exception that ended the run, "none" while it runs
    filename,       \* the file stem the run was started with, <<year, month>>
    df,             \* the batch in memory
    df_summary,     \* the one-row monthly summary
    df_violations,  \* the detailed tier: the violating rows
    monthly_dir,    \* report/monthly_violation_report
    detailed_dir,   \* report/employee_level_violation_report/detailed
    aggregated_dir, \* report/employee_level_violation_report/aggregated
    report_year,    \* compile_ytd_violation_summary's report_year argument
    ytd_df,         \* the compiled year-to-date summary, as returned and written
    emp_ytd_df,     \* the compiled employee year-to-date table, as returned and written
    yearly_dir,     \* report/yearly_report: the files of the two year-to-date compiles
    listing,        \* the orders os.listdir has given, by folder and entries
    sorting,        \* the orders sort_values has given, by the table sorted
    returned,       \* what the invocations of the compiles returned, oldest first
    reported,       \* the files whose read failure an except clause printed
    raw_dir,        \* data/raw
    cleaned_dir,    \* data/cleaned
    processed_dir,  \* data/processed
    missing_log_dir, \* report/missing_log
    cleaned_df,     \* the frame clean_data returned to main() in this run
    runs,           \* the number of times main() has been started
    procs           \* the position and locals of each of two concurrent runs

\* the state the year-to-date compiles add to that of the monthly stages
extVars == <<yearly_dir, listing, sorting, returned>>

\* the state main() adds: the data folders and the value clean_data returns
mainVars == <<raw_dir, cleaned_dir, processed_dir, missing_log_dir, cleaned_df, runs>>

vars == <<pc, error, filename, df, df_summary, df_violations, monthly_dir,
          detailed_dir, aggregated_dir, report_year, ytd_df, emp_ytd_df, extVars,
          reported, mainVars, procs>>

(***************************************************************************)
(* Bounds of the model.                                                    *)
(***************************************************************************)
\* rows of a batch in the rule-engine specification
RuleRows == 1
\* rows of a monthly batch in the monthly-report specification
MaxRows == 2
\* distinct employees
NumEmployees == 2

Employees == 1..NumEmployees

(***************************************************************************)
(* Time values.                                                            *)
(***************************************************************************)
\* pandas NaT: a missing or unparsable time
NaT == -1

isna(t) == t = NaT

\* pd.Timedelta(hours=h), in minutes
Timedelta(h) == h * 60

TsGeNaTLast(a, b) == b # NaT /\ (a = NaT \/ a >= b)

\* Series >= Series on datetimes: a comparison with NaT is False
TsGe(a, b) == a # NaT /\ b # NaT /\ a >= b

\* Series > Series on datetimes: a comparison with NaT is False
TsGt(a, b) == a # NaT /\ b # NaT /\ a > b

\* shift length at which a meal break is due without a waiver (inclusive)
NoWaiverMinutes == 300
\* shift length beyond which a meal break is due with a waiver (exclusive)
WaiverMinutes == 360
\* latest lunch start without a waiver, hours after clock_in (exclusive)
NoWaiverHours == 5
\* latest lunch start with a waiver, hours after clock_in (inclusive)
WaiverHours == 6

(***************************************************************************)
(* RuleEngine: detect_break_violations.py                                  *)
(***************************************************************************)
\* df["shift_length_minutes"] = (clock_out - clock_in).dt.total_seconds() / 60
compute_shift_length(d) ==
    [i \in DOMAIN d |->
        d[i] @@ [shift_length_minutes |-> d[i].clock_out - d[i].clock_in]]

LunchNeededOffByOne(r) ==
    \/ (~r.waiver_signed /\ r.shift_length_minutes > NoWaiverMinutes)
    \/ (r.waiver_signed /\ r.shift_length_minutes >= WaiverMinutes)

\* the mask assigned to df["lunch_needed"]
LunchNeeded(r) ==
    \/ (~r.waiver_signed /\ r.shift_length_minutes >= NoWaiverMinutes)
    \/ (r.waiver_signed /\ r.shift_length_minutes > WaiverMinutes)

\* Case 1: lunch is needed but lunch_start is missing
MissedLunchMask(r) == r.lunch_needed /\ isna(r.lunch_start)

LateNoWaiverMaskStrict(r) ==
    /\ r.lunch_needed
    /\ ~r.waiver_signed
    /\ TsGt(r.lunch_start, r.clock_in + Timedelta(NoWaiverHours))

\* Case 2: no waiver and lunch started too late
LateNoWaiverMask(r) ==
    /\ r.lunch_needed
    /\ ~r.waiver_signed
    /\ TsGe(r.lunch_start, r.clock_in + Timedelta(NoWaiverHours))

\* Case 3: waiver signed but lunch still exceeded the 6-hour rule
LateWaiverMask(r) ==
    /\ r.lunch_needed
    /\ r.waiver_signed
    /\ TsGt(r.lunch_start, r.clock_in + Timedelta(WaiverHours))

\* df.loc[mask, "violation_reason"] = reason, on one row
SetReason(r, mask, reason) ==
    IF mask THEN [r EXCEPT !.violation_reason = reason] ELSE r

ViolationFlagFromLunchNeeded(r) == r.lunch_needed

\* df["violation_flag"] = df["violation_reason"] != "no_violation"
ViolationFlag(r) == r.violation_reason # "no_violation"

\* The statements of check_for_violation are whole-column operations that act on
\* each row independently: a row is taken through them in the order of the code.
CheckRow(r) ==
    LET r1 == r @@ [lunch_needed |-> LunchNeeded(r)]
        r2 == r1 @@ [violation_reason |-> "no_violation"]
        r3 == SetReason(r2, MissedLunchMask(r2), "missed_lunch")
        r4 == SetReason(r3, LateNoWaiverMask(r3), "late_lunch_no_waiver")
        r5 == SetReason(r4, LateWaiverMask(r4), "late_lunch_waiver")
    IN  r5 @@ [violation_flag |-> ViolationFlag(r5)]

check_for_violation(d) == [i \in DOMAIN d |-> CheckRow(d[i])]

(***************************************************************************)
(* Tables and report folders.  A folder maps file stems to files; a file   *)
(* holds the table that to_csv wrote, or cannot be parsed by read_csv.     *)
(***************************************************************************)
NoTable == << >>
NoDir == [k \in {} |-> NoTable]

File(table) == [readable |-> TRUE, table |-> table]
Unreadable == [readable |-> FALSE, table |-> NoTable]

to_csv_appending(dir, stem, table) ==
    [k \in DOMAIN dir \cup {stem} |->
        IF k # stem THEN dir[k]
        ELSE IF stem \in DOMAIN dir THEN File(dir[stem].table \o table)
        ELSE File(table)]

\* df.to_csv(path): the file is created or overwritten
to_csv(dir, stem, table) ==
    [k \in DOMAIN dir \cup {stem} |-> IF k = stem THEN File(table) ELSE dir[k]]

\* the elements of a set of numbers, ascending
SortedSeq(S) ==
    CHOOSE s \in [1..Cardinality(S) -> S] :
        \A i, j \in 1..Cardinality(S) : i < j => s[i] < s[j]

\* dict.get(key, default)
Get(dict, key, default) == IF key \in DOMAIN dict THEN dict[key] ELSE default

(***************************************************************************)
(* MonthlySummaryBuilder: violation_summary_report.py                      *)
(***************************************************************************)
\* numpy's nan: the value of violations / total_shifts when both are 0
NaN == -1

\* round(n / t * 100, 1) in tenths of a percent, ties to the even tenth; 0 / 0 on
\* numpy integers is nan (a RuntimeWarning, no exception) and round(nan, 1) is nan
RoundPct(n, t) ==
    IF t = 0 THEN NaN
    ELSE LET q == (n * 1000) \div t
             r == (n * 1000) % t
         IN  IF 2 * r > t \/ (2 * r = t /\ q % 2 = 1) THEN q + 1 ELSE q

\* df["violation_reason"].value_counts().to_dict(): the reasons that occur
ReasonCounts(d) ==
    [reason \in {d[i].violation_reason : i \in DOMAIN d} |->
        Cardinality({i \in DOMAIN d : d[i].violation_reason = reason})]

\* a value returned, or the exception raised instead of it
Returned(v) == [raised |-> "none", value |-> v]
Raised(e, v) == [raised |-> e, value |-> v]

MonthOfFirstRowOrBlank(d) ==
    IF Len(d) = 0 THEN Returned(<<0, 0>>)
    ELSE Returned(<<d[1].date[1], d[1].date[2]>>)

\* df["date"].iloc[0][:7]: the year-month of the first row's date; iloc[0] raises
\* IndexError on a frame without rows
MonthOfFirstRow(d) ==
    IF Len(d) = 0 THEN Raised("IndexError", <<0, 0>>)
    ELSE Returned(<<d[1].date[1], d[1].date[2]>>)

ViolationsCountedByLunchNeeded(d) ==
    Cardinality({i \in DOMAIN d : d[i].lunch_needed})

\* (df["violation_reason"] != "no_violation").sum()
ViolationsCounted(d) ==
    Cardinality({i \in DOMAIN d : d[i].violation_reason # "no_violation"})

\* build_violation_summary: the one-row DataFrame it returns, or the exception
\* that the "month" entry of the summary dict raises
build_violation_summary(d) ==
    LET total_shifts == Len(d)
        violations == ViolationsCounted(d)
        pct_violations == RoundPct(violations, total_shifts)
        reason_counts == ReasonCounts(d)
        month == MonthOfFirstRow(d)
    IN  IF month.raised # "none" THEN Raised(month.raised, NoTable)
        ELSE Returned(
               << [month |-> month.value,
                   total_shifts |-> total_shifts,
                   violations |-> violations,
                   pct_violations |-> pct_violations,
                   missed_lunch |-> Get(reason_counts, "missed_lunch", 0),
                   late_lunch_no_waiver |-> Get(reason_counts, "late_lunch_no_waiver", 0),
                   late_lunch_waiver |-> Get(reason_counts, "late_lunch_waiver", 0)] >>)

(***************************************************************************)
(* EmployeeAggregator: employee_level_violation.py                         *)
(***************************************************************************)
ViolationListOfNeeded(d) == SelectSeq(d, LAMBDA r : r.lunch_needed = TRUE)

\* df[df["violation_flag"] == True].copy(): the rows keep their index labels
ViolationList(d) == SelectSeq(d, LAMBDA r : r.violation_flag = TRUE)

ReasonColumns == <<"missed_lunch", "late_lunch_no_waiver", "late_lunch_waiver">>

\* groupby(["employee_id", "violation_reason"]).size(): one entry per pair that occurs
GroupSizes(d) ==
    [p \in {<<d[i].employee_id, d[i].violation_reason>> : i \in DOMAIN d} |->
        Cardinality({i \in DOMAIN d : /\ d[i].employee_id = p[1]
                                        /\ d[i].violation_reason = p[2]})]

UnstackFirstEmployeeOnly(sizes) ==
    LET emps == SortedSeq({p[1] : p \in DOMAIN sizes})
        cols == {p[2] : p \in DOMAIN sizes}
    IN  [k \in 1..(IF Len(emps) = 0 THEN 0 ELSE 1) |->
            [employee_id |-> emps[k]] @@
            [c \in cols |-> IF <<emps[k], c>> \in DOMAIN sizes
                            THEN sizes[<<emps[k], c>>] ELSE 0]]

\* .unstack(fill_value=0).reset_index(): a row per employee_id, ascending, and a
\* column per reason that occurs
Unstack(sizes) ==
    LET emps == SortedSeq({p[1] : p \in DOMAIN sizes})
        cols == {p[2] : p \in DOMAIN sizes}
    IN  [k \in 1..Len(emps) |->
            [employee_id |-> emps[k]] @@
            [c \in cols |-> IF <<emps[k], c>> \in DOMAIN sizes
                            THEN sizes[<<emps[k], c>>] ELSE 0]]

\* if col not in violation_counts.columns: violation_counts[col] = 0
EnsureColumns(t) ==
    [k \in DOMAIN t |->
        t[k] @@ [c \in {ReasonColumns[j] : j \in DOMAIN ReasonColumns} |-> 0]]

TotalOfTwoColumns(row) == row.missed_lunch + row.late_lunch_no_waiver

\* violation_counts[[the three reason columns]].sum(axis=1)
TotalViolations(row) ==
    row.missed_lunch + row.late_lunch_no_waiver + row.late_lunch_waiver

\* the violation_counts table aggregate_employee_violations saves
aggregate_employee_violations(d) ==
    LET t == EnsureColumns(Unstack(GroupSizes(d)))
    IN  [k \in DOMAIN t |-> t[k] @@ [total_violations |-> TotalViolations(t[k])]]

(***************************************************************************)
(* Input batches.  Rows carry the RangeIndex label read_csv gives them.    *)
(***************************************************************************)
\* clock and lunch times around the 5-hour and 6-hour marks, and a clock_out at or
\* before clock_in
RuleClockIn == {480, 540}
RuleClockOut == {480, 779, 780, 785, 840, 841, 960}
RuleLunchStart == {NaT, 720, 779, 780, 840, 841, 930}

\* the shifts of the monthly batches: 7-hour shifts, lunch absent, early or late
ShiftClockIn == {480}
ShiftClockOut == {900}
ShiftLunchStart == {NaT, 720, 841}

\* dates of two reporting months
BatchDates == {<<2024, 7, 15>>, <<2024, 8, 1>>}

RawRows(emps, dates, ins, outs, lunches) ==
    [employee_id : emps, date : dates, clock_in : ins, clock_out : outs,
     lunch_start : lunches, waiver_signed : BOOLEAN]

\* the rows of the rule-engine batches: one employee, one date
RuleRowSet ==
    RawRows({1}, {<<2024, 7, 15>>}, RuleClockIn, RuleClockOut, RuleLunchStart)

\* the rows of the monthly batches
MonthlyRowSet ==
    RawRows(Employees, BatchDates, ShiftClockIn, ShiftClockOut, ShiftLunchStart)

\* read_csv: the rows in file order, labelled 0..len-1
read_rows(s) == [i \in DOMAIN s |-> s[i] @@ [index |-> i - 1]]

(***************************************************************************)
(* Steps of detect_break_violations                                        *)
(***************************************************************************)
ComputeShiftLength ==
    /\ pc = "loaded"
    /\ df' = compute_shift_length(df)
    /\ pc' = "length"
    /\ UNCHANGED <<error, filename, df_summary, df_violations, monthly_dir,
                   detailed_dir, aggregated_dir, report_year, ytd_df, emp_ytd_df, extVars,
                   reported, mainVars, procs>>

CheckForViolation ==
    /\ pc = "length"
    /\ df' = check_for_violation(df)
    /\ pc' = "classified"
    /\ UNCHANGED <<error, filename, df_summary, df_violations, monthly_dir,
                   detailed_dir, aggregated_dir, report_year, ytd_df, emp_ytd_df, extVars,
                   reported, mainVars, procs>>

(***************************************************************************)
(* Steps of generate_monthly_violation_report                              *)
(***************************************************************************)
\* df_summary = build_violation_summary(df, filename); an exception ends the run
BuildViolationSummary ==
    /\ pc = "classified"
    /\ LET result == build_violation_summary(df)
       IN  \/ /\ result.raised # "none"
              /\ error' = result.raised
              /\ pc' = "failed"
              /\ UNCHANGED df_summary
           \/ /\ result.raised = "none"
              /\ df_summary' = result.value
              /\ pc' = "summarized"
              /\ UNCHANGED error
    /\ UNCHANGED <<filename, df, df_violations, monthly_dir, detailed_dir,
                   aggregated_dir, report_year, ytd_df, emp_ytd_df, extVars,
                   reported, mainVars, procs>>

\* save_violation_summary(df_summary, filename)
SaveViolationSummary ==
    /\ pc = "summarized"
    /\ monthly_dir' = to_csv(monthly_dir, filename, df_summary)
    /\ pc' = "summary_saved"
    /\ UNCHANGED <<error, filename, df, df_summary, df_violations, detailed_dir,
                   aggregated_dir, report_year, ytd_df, emp_ytd_df, extVars,
                   reported, mainVars, procs>>

(***************************************************************************)
(* Steps of process_employee_level_analysis                                *)
(***************************************************************************)
\* create_violation_list: filters, saves the detailed report, returns the rows
CreateViolationList ==
    /\ pc = "summary_saved"
    /\ df_violations' = ViolationList(df)
    /\ detailed_dir' = to_csv(detailed_dir, filename, df_violations')
    /\ pc' = "listed"
    /\ UNCHANGED <<error, filename, df, df_summary, monthly_dir, aggregated_dir,
                   report_year, ytd_df, emp_ytd_df, extVars,
                   reported, mainVars, procs>>

\* aggregate_employee_violations: builds violation_counts and saves it
AggregateEmployeeViolations ==
    /\ pc = "listed"
    /\ aggregated_dir' =
           to_csv(aggregated_dir, filename, aggregate_employee_violations(df_violations))
    /\ pc' = "aggregated"
    /\ UNCHANGED <<error, filename, df, df_summary, df_violations, monthly_dir,
                   detailed_dir, report_year, ytd_df, emp_ytd_df, extVars,
                   reported, mainVars, procs>>

\* the year main() compiles
ReportYear == 2024

\* before any compile: no output file, no listing or sort made, nothing returned
\* or reported
ExtInit ==
    /\ yearly_dir = NoDir
    /\ listing = NoDir
    /\ sorting = NoDir
    /\ returned = << >>
    /\ reported = << >>

\* main() is not running: the state it adds is empty
MainIdle ==
    /\ raw_dir = NoDir
    /\ cleaned_dir = NoDir
    /\ processed_dir = NoDir
    /\ missing_log_dir = NoDir
    /\ cleaned_df = NoTable
    /\ runs = 0
    /\ procs = << >>

\* the file stems a monthly run is started with
RunStems == {<<ReportYear, 7>>, <<ReportYear, 8>>}

Init ==
    /\ pc = "loaded"
    /\ error = "none"
    /\ filename \in RunStems
    /\ \E k \in 0..MaxRows : \E s \in [1..k -> MonthlyRowSet] : df = read_rows(s)
    /\ df_summary = NoTable
    /\ df_violations = NoTable
    /\ monthly_dir = NoDir
    /\ detailed_dir = NoDir
    /\ aggregated_dir = NoDir
    /\ report_year = 0
    /\ ytd_df = NoTable
    /\ emp_ytd_df = NoTable
    /\ ExtInit
    /\ MainIdle

Next ==
    \/ ComputeShiftLength
    \/ CheckForViolation
    \/ BuildViolationSummary
    \/ SaveViolationSummary
    \/ CreateViolationList
    \/ AggregateEmployeeViolations

Spec == Init /\ [][Next]_vars

InitRule ==
    /\ pc = "loaded"
    /\ error = "none"
    /\ filename = <<ReportYear, 7>>
    /\ \E k \in 1..RuleRows : \E s \in [1..k -> RuleRowSet] : df = read_rows(s)
    /\ df_summary = NoTable
    /\ df_violations = NoTable
    /\ monthly_dir = NoDir
    /\ detailed_dir = NoDir
    /\ aggregated_dir = NoDir
    /\ report_year = 0
    /\ ytd_df = NoTable
    /\ emp_ytd_df = NoTable
    /\ ExtInit
    /\ MainIdle

NextRule == ComputeShiftLength \/ CheckForViolation

SpecRule == InitRule /\ [][NextRule]_vars

(***************************************************************************)
(* YTDCompiler and EmployeeYTDCompiler: compile_ytd.py,                    *)
(* compile_employee_ytd.py                                                 *)
(***************************************************************************)
\* rows of a monthly batch behind an artifact of the report folders
MaxYtdRows == 2

\* the file stems of the monthly summaries: <<year, month>> of timecards_<mon>_<year>
FileStems == {<<ReportYear - 1, 12>>} \cup RunStems

\* the rows of the monthly batches of the month of a file stem
RowsOfMonth(stem) ==
    RawRows(Employees, {<<stem[1], stem[2], 1>>}, ShiftClockIn, ShiftClockOut,
            ShiftLunchStart)

classify(rows) == check_for_violation(compute_shift_length(read_rows(rows)))

\* the summary artifacts a monthly run can write under a stem from up to n rows
SummaryFilesUpTo(stem, n) ==
    UNION {{File(build_violation_summary(classify(s)).value) :
               s \in [1..k -> RowsOfMonth(stem)]} : k \in 1..n}

\* the aggregated employee artifacts a monthly run can write under a stem from up
\* to n rows
AggregatedFilesUpTo(stem, n) ==
    UNION {{File(aggregate_employee_violations(ViolationList(classify(s)))) :
               s \in [1..k -> RowsOfMonth(stem)]} : k \in 0..n}

SummaryFiles(stem) == SummaryFilesUpTo(stem, MaxYtdRows)

AggregatedFiles(stem) == AggregatedFilesUpTo(stem, MaxYtdRows)

\* the <<stem, file>> pairs of the summaries monthly runs can write
SummaryFileSet == UNION {{k} \X SummaryFiles(k) : k \in FileStems}

\* the <<stem, file>> pairs of the aggregated tables monthly runs can write
AggregatedFileSet == UNION {{k} \X AggregatedFiles(k) : k \in RunStems}

\* the files a folder can hold under any stem
FilesIn(files) == {Unreadable} \cup {p[2] : p \in files}

\* a state of a report folder: under each stem present one of the files of that
\* stem, or a file read_csv cannot parse
IsFolder(d, files) ==
    \A k \in DOMAIN d : d[k] = Unreadable \/ <<k, d[k]>> \in files

\* os.listdir(folder): the entries, in arbitrary order
listdir(dir) ==
    {s \in [1..Cardinality(DOMAIN dir) -> DOMAIN dir] :
        \A i, j \in DOMAIN s : i # j => s[i] # s[j]}

concat_last_only(tables) ==
    IF tables = << >> THEN << >> ELSE tables[Len(tables)]

\* pd.concat(tables, ignore_index=True)
RECURSIVE concat(_)
concat(tables) ==
    IF tables = << >> THEN << >> ELSE Head(tables) \o concat(Tail(tables))

\* the tables read from a folder, in the order the files are visited
ReadAll(dir, order) == [i \in DOMAIN order |-> dir[order[i]].table]

\* os.listdir is a function of the folder: for a folder and a set of entries it
\* has listed before it gives the order it gave then, else any order
Listings(memo, folder, dir) ==
    IF <<folder, DOMAIN dir>> \in DOMAIN memo
    THEN {memo[<<folder, DOMAIN dir>>]}
    ELSE listdir(dir)

\* the memo with the outcome for key recorded
Remember(memo, key, outcome) ==
    [k \in DOMAIN memo \cup {key} |-> IF k = key THEN outcome ELSE memo[k]]

\* the default report_folder and output_path of compile_ytd_violation_summary
YtdReportFolder == "report/monthly_violation_report"

YtdOutputFolderIsReportFolder == "report/monthly_violation_report"

YtdOutputFolder == "report/yearly_report/2024"

\* ytd_report_compiled.csv, a name that is no month's file stem
YtdFile == <<0, 0>>

\* <ytd_filename>_employee_ytd_report.csv under yearly_report/employee_ytd
EmployeeYtdFile == <<ReportYear, 0>>

compile_ytd_skipping_unreadable(dir, order) ==
    IF order = << >> THEN Returned(NoTable)
    ELSE Returned(concat(ReadAll(dir, SelectSeq(order, LAMBDA k : dir[k].readable))))

\* the body of compile_ytd_violation_summary on the entries in the order listed:
\* every entry is read, a read_csv failure is not caught, None is returned when
\* there is no entry
compile_ytd_violation_summary(dir, order) ==
    IF \E i \in DOMAIN order : ~dir[order[i]].readable
    THEN Raised("read_csv", NoTable)
    ELSE IF order = << >> THEN Returned(NoTable)
    ELSE Returned(concat(ReadAll(dir, order)))

\* compile_ytd_violation_summary(report_year): lists the report folder, compiles
\* and writes ytd_report_compiled.csv under output_path
CompileYtd ==
    /\ pc = "ytd_start"
    /\ \E year \in {ReportYear - 1, ReportYear},
          order \in Listings(listing, YtdReportFolder, monthly_dir) :
        LET result == compile_ytd_violation_summary(monthly_dir, order)
        IN  /\ report_year' = year
            /\ listing' =
                   Remember(listing, <<YtdReportFolder, DOMAIN monthly_dir>>, order)
            /\ returned' = Append(returned, result)
            /\ \/ /\ result.raised # "none"
                  /\ error' = result.raised
                  /\ pc' = "failed"
                  /\ UNCHANGED <<ytd_df, monthly_dir, yearly_dir>>
               \/ /\ result.raised = "none"
                  /\ order = << >>
                  /\ pc' = "ytd_none"
                  /\ UNCHANGED <<error, ytd_df, monthly_dir, yearly_dir>>
               \/ /\ result.raised = "none"
                  /\ order # << >>
                  /\ ytd_df' = result.value
                  /\ IF YtdOutputFolder = YtdReportFolder
                     THEN /\ monthly_dir' = to_csv(monthly_dir, YtdFile, result.value)
                          /\ UNCHANGED yearly_dir
                     ELSE /\ yearly_dir' = to_csv(yearly_dir, YtdFile, result.value)
                          /\ UNCHANGED monthly_dir
                  /\ pc' = "ytd_done"
                  /\ UNCHANGED error
    /\ UNCHANGED <<filename, df, df_summary, df_violations, detailed_dir,
                   aggregated_dir, emp_ytd_df, sorting, reported, mainVars, procs>>

InitYtd ==
    /\ pc = "ytd_start"
    /\ error = "none"
    /\ filename = <<ReportYear, 7>>
    /\ df = NoTable
    /\ df_summary = NoTable
    /\ df_violations = NoTable
    /\ \E present \in SUBSET FileStems :
          \E d \in [present -> FilesIn(SummaryFileSet)] :
              IsFolder(d, SummaryFileSet) /\ monthly_dir = d
    /\ detailed_dir = NoDir
    /\ aggregated_dir = NoDir
    /\ report_year = 0
    /\ ytd_df = NoTable
    /\ emp_ytd_df = NoTable
    /\ ExtInit
    /\ MainIdle

NextYtd == CompileYtd

SpecYtd == InitYtd /\ [][NextYtd]_vars

NumericColumns ==
    {"missed_lunch", "late_lunch_no_waiver", "late_lunch_waiver", "total_violations"}

RECURSIVE ColumnFirst(_, _, _)
ColumnFirst(t, e, c) ==
    IF t = << >> THEN 0
    ELSE IF Head(t).employee_id = e THEN Head(t)[c]
    ELSE ColumnFirst(Tail(t), e, c)

\* the sum of column c over the rows of employee e
RECURSIVE ColumnSum(_, _, _)
ColumnSum(t, e, c) ==
    IF t = << >> THEN 0
    ELSE (IF Head(t).employee_id = e THEN Head(t)[c] ELSE 0) + ColumnSum(Tail(t), e, c)

\* full_df.groupby("employee_id").sum(numeric_only=True).reset_index():
\* a row per employee_id, ascending
GroupBySum(full_df) ==
    LET emps == SortedSeq({full_df[i].employee_id : i \in DOMAIN full_df})
    IN  [k \in 1..Len(emps) |->
            [employee_id |-> emps[k]] @@
            [c \in NumericColumns |-> ColumnSum(full_df, emps[k], c)]]

\* the orders of the rows of t
RowOrders(t) ==
    {[i \in DOMAIN t |-> t[p[i]]] : p \in Permutations(DOMAIN t)}

SortValuesAscending(t) ==
    {s \in RowOrders(t) :
        \A i, j \in DOMAIN s : i < j => s[i].total_violations <= s[j].total_violations}

\* sort_values(by="total_violations", ascending=False): the default kind is
\* quicksort, which is not stable; any descending order of the rows can result
SortValues(t) ==
    {s \in RowOrders(t) :
        \A i, j \in DOMAIN s : i < j => s[i].total_violations >= s[j].total_violations}

\* the files read_csv raised on, in the order visited: each is printed by the
\* except clause
UnreadableIn(dir, order) == SelectSeq(order, LAMBDA k : ~dir[k].readable)

\* the tables of the files read_csv could parse, in the order visited
ReadReadable(dir, order) ==
    LET ok == SelectSeq(order, LAMBDA k : dir[k].readable)
    IN  [i \in DOMAIN ok |-> dir[ok[i]].table]

\* sort_values is a function of the table: for a table it has sorted before it
\* gives the order it gave then, else any of the orders of SortValues
SortOutcomes(memo, t) ==
    IF t \in DOMAIN memo THEN {memo[t]} ELSE SortValues(t)

\* the folder compile_employee_ytd lists
AggregatedFolder == "report/employee_level_violation_report/aggregated"

\* the body of compile_employee_ytd up to the sort, on the files in the order
\* listed: None when there is no file, a file that cannot be read is reported and
\* skipped, pd.concat of no table raises ValueError
compile_employee_ytd(dir, order) ==
    LET all_months == ReadReadable(dir, order)
    IN  IF order = << >> THEN Returned(NoTable)
        ELSE IF all_months = << >> THEN Raised("ValueError", NoTable)
        ELSE Returned(GroupBySum(concat(all_months)))

\* compile_employee_ytd(ytd_filename): lists the aggregated folder, compiles,
\* sorts and writes the employee year-to-date report
CompileEmployeeYtd ==
    /\ pc = "emp_ytd_start"
    /\ \E order \in Listings(listing, AggregatedFolder, aggregated_dir) :
        LET result == compile_employee_ytd(aggregated_dir, order)
        IN  /\ listing' =
                   Remember(listing, <<AggregatedFolder, DOMAIN aggregated_dir>>, order)
            /\ reported' = reported \o UnreadableIn(aggregated_dir, order)
            /\ \/ /\ result.raised = "none"
                  /\ order = << >>
                  /\ pc' = "emp_ytd_none"
                  /\ returned' = Append(returned, result)
                  /\ UNCHANGED <<error, emp_ytd_df, yearly_dir, sorting>>
               \/ /\ result.raised # "none"
                  /\ error' = result.raised
                  /\ pc' = "failed"
                  /\ returned' = Append(returned, result)
                  /\ UNCHANGED <<emp_ytd_df, yearly_dir, sorting>>
               \/ /\ result.raised = "none"
                  /\ order # << >>
                  /\ \E sorted \in SortOutcomes(sorting, result.value) :
                        /\ sorting' = Remember(sorting, result.value, sorted)
                        /\ emp_ytd_df' = sorted
                        /\ yearly_dir' = to_csv(yearly_dir, EmployeeYtdFile, sorted)
                        /\ returned' = Append(returned, Returned(sorted))
                  /\ pc' = "emp_ytd_done"
                  /\ UNCHANGED error
    /\ UNCHANGED <<filename, df, df_summary, df_violations, monthly_dir,
                   detailed_dir, aggregated_dir, report_year, ytd_df, mainVars, procs>>

InitEmpYtd ==
    /\ pc = "emp_ytd_start"
    /\ error = "none"
    /\ filename = <<ReportYear, 7>>
    /\ df = NoTable
    /\ df_summary = NoTable
    /\ df_violations = NoTable
    /\ monthly_dir = NoDir
    /\ detailed_dir = NoDir
    /\ \E present \in SUBSET RunStems :
          \E d \in [present -> FilesIn(AggregatedFileSet)] :
              IsFolder(d, AggregatedFileSet) /\ aggregated_dir = d
    /\ report_year = 0
    /\ ytd_df = NoTable
    /\ emp_ytd_df = NoTable
    /\ ExtInit
    /\ MainIdle

NextEmpYtd == CompileEmployeeYtd

SpecEmpYtd == InitEmpYtd /\ [][NextEmpYtd]_vars

(***************************************************************************)
(* The compiles run again: either script is started a second time on the   *)
(* folders as they are.                                                    *)
(***************************************************************************)
\* invocations of a compile in one behaviour
MaxCompiles == 2
\* rows of a monthly batch behind an artifact of the folders compiled again
MaxRerunRows == 1

RerunSummaryFileSet ==
    UNION {{k} \X SummaryFilesUpTo(k, MaxRerunRows) : k \in FileStems}

RerunAggregatedFileSet ==
    UNION {{k} \X AggregatedFilesUpTo(k, MaxRerunRows) : k \in RunStems}

\* the script is run again: compile_ytd_violation_summary() or compile_employee_ytd()
RerunCompile ==
    /\ Len(returned) < MaxCompiles
    /\ \/ pc \in {"ytd_done", "ytd_none"} /\ pc' = "ytd_start"
       \/ pc \in {"emp_ytd_done", "emp_ytd_none"} /\ pc' = "emp_ytd_start"
    /\ UNCHANGED <<error, filename, df, df_summary, df_violations, monthly_dir,
                   detailed_dir, aggregated_dir, report_year, ytd_df, emp_ytd_df,
                   extVars, reported, mainVars, procs>>

InitCompile ==
    /\ error = "none"
    /\ filename = <<ReportYear, 7>>
    /\ df = NoTable
    /\ df_summary = NoTable
    /\ df_violations = NoTable
    /\ detailed_dir = NoDir
    /\ report_year = 0
    /\ ytd_df = NoTable
    /\ emp_ytd_df = NoTable
    /\ ExtInit
    /\ MainIdle
    /\ \/ /\ pc = "ytd_start"
          /\ \E present \in SUBSET FileStems :
                \E d \in [present -> FilesIn(RerunSummaryFileSet)] :
                    IsFolder(d, RerunSummaryFileSet) /\ monthly_dir = d
          /\ aggregated_dir = NoDir
       \/ /\ pc = "emp_ytd_start"
          /\ monthly_dir = NoDir
          /\ \E present \in SUBSET RunStems :
                \E d \in [present -> FilesIn(RerunAggregatedFileSet)] :
                    IsFolder(d, RerunAggregatedFileSet) /\ aggregated_dir = d

NextCompile == CompileYtd \/ CompileEmployeeYtd \/ RerunCompile

SpecCompile == InitCompile /\ [][NextCompile]_vars

(***************************************************************************)
(* Cleaning: explore_and_initial_clean.py, and the CSV cells of data_io.py *)
(* A time cell of a CSV file is <<hour, minute, second>> or empty; a       *)
(* timestamp is the minute of the day, or NaT.                             *)
(***************************************************************************)
Empty == << >>

\* a cell that strptime accepts under "%H:%M:%S"
ValidTime(x) ==
    /\ x # Empty
    /\ Len(x) = 3
    /\ x[1] \in 0..23 /\ x[2] \in 0..59 /\ x[3] \in 0..59

\* pd.to_datetime(cell, format="%H:%M:%S", errors="coerce")
to_datetime(x) == IF ValidTime(x) THEN x[1] * 60 + x[2] ELSE NaT

\* Series.dt.strftime('%H:%M:%S'): NaT becomes a missing cell
strftime(t) == IF t = NaT THEN Empty ELSE <<t \div 60, t % 60, 0>>

\* a datetime64 cell as to_csv writes it: "1900-01-01 HH:MM:SS", NaT as nothing
isoformat(t) == IF t = NaT THEN Empty ELSE <<1900, 1, 1, t \div 60, t % 60, 0>>

convert_time_to_date_time(d) ==
    [i \in DOMAIN d |->
        [d[i] EXCEPT !.lunch_end = to_datetime(@), !.lunch_start = to_datetime(@),
                     !.clock_in = to_datetime(@), !.clock_out = to_datetime(@)]]

\* mask_missing = df["clock_in"].isna() | df["clock_out"].isna()
MaskMissing(r) == isna(r.clock_in) \/ isna(r.clock_out)

\* the lambda of handle_missing_shift_rows
IssueReason(r) ==
    IF isna(r.clock_in) THEN "Missing clock_in"
    ELSE IF isna(r.clock_out) THEN "Missing clock_out"
    ELSE "Missing both"

\* df_missing with its issue_reason column
MissingShiftRows(d) ==
    LET df_missing == SelectSeq(d, MaskMissing)
    IN  [i \in DOMAIN df_missing |->
            df_missing[i] @@ [issue_reason |-> IssueReason(df_missing[i])]]

\* what handle_missing_shift_rows returns: df[~mask_missing]
handle_missing_shift_rows(d) == SelectSeq(d, LAMBDA r : ~MaskMissing(r))

impute_lunch_start(d) ==
    [i \in DOMAIN d |->
        IF isna(d[i].lunch_start) /\ ~isna(d[i].lunch_end)
        THEN [d[i] EXCEPT !.lunch_start = d[i].lunch_end - 30]
        ELSE d[i]]

\* a row without its index label: to_csv(index=False)
NoIndex(r) == [c \in DOMAIN r \ {"index"} |-> r[c]]

\* the rows save_clean_data writes: the four time columns through strftime
CleanCsvRows(d) ==
    [i \in DOMAIN d |->
        NoIndex([d[i] EXCEPT !.clock_in = strftime(@), !.lunch_start = strftime(@),
                            !.lunch_end = strftime(@), !.clock_out = strftime(@)])]

\* the rows to_csv(index=False) writes of a frame whose four time columns are
\* datetime64
DatetimeCsvRows(d) ==
    [i \in DOMAIN d |->
        NoIndex([d[i] EXCEPT !.clock_in = isoformat(@), !.lunch_start = isoformat(@),
                            !.lunch_end = isoformat(@), !.clock_out = isoformat(@)])]

\* save_clean_data(df, filename)
save_clean_data(dir, stem, d) == to_csv(dir, stem, CleanCsvRows(d))

\* the frame clean_data returns from the rows of the raw file
clean_data(rows) ==
    impute_lunch_start(handle_missing_shift_rows(convert_time_to_date_time(
        read_rows(rows))))

\* the frame detect_break_violations builds from the rows of the cleaned file
detect_break_violations(rows) ==
    check_for_violation(compute_shift_length(convert_time_to_date_time(
        read_rows(rows))))

(***************************************************************************)
(* The stages of main(): main.py                                           *)
(***************************************************************************)
\* Step 1, clean_data(filename): the frame is returned, the rows without a shift
\* time are logged, and nothing is saved under data/cleaned (the call of
\* save_clean_data is commented out). Assigning the result of apply(axis=1) on a
\* df_missing without rows to one column raises ValueError on the builds of
\* pandas that refuse a frame as the value of a column.
MainCleanData ==
    /\ pc = "start"
    /\ \/ /\ filename \notin DOMAIN raw_dir
          /\ error' = "FileNotFoundError"
          /\ pc' = "failed"
          /\ UNCHANGED <<missing_log_dir, cleaned_df>>
       \/ /\ filename \in DOMAIN raw_dir
          /\ MissingShiftRows(convert_time_to_date_time(
                 read_rows(raw_dir[filename].table))) = << >>
          /\ error' = "ValueError"
          /\ pc' = "failed"
          /\ UNCHANGED <<missing_log_dir, cleaned_df>>
       \/ /\ filename \in DOMAIN raw_dir
          /\ LET d == convert_time_to_date_time(read_rows(raw_dir[filename].table))
             IN  missing_log_dir' =
                     to_csv(missing_log_dir, filename,
                            DatetimeCsvRows(MissingShiftRows(d)))
          /\ cleaned_df' = clean_data(raw_dir[filename].table)
          /\ pc' = "cleaned"
          /\ UNCHANGED error
    /\ UNCHANGED <<filename, df, df_summary, df_violations, monthly_dir,
                   detailed_dir, aggregated_dir, report_year, ytd_df, emp_ytd_df,
                   extVars, reported, raw_dir, cleaned_dir, processed_dir, runs,
                   procs>>

\* Step 2, detect_break_violations(filename): reads data/cleaned, classifies,
\* writes data/processed
MainDetectBreakViolations ==
    /\ pc = "cleaned"
    /\ \/ /\ filename \notin DOMAIN cleaned_dir
          /\ error' = "FileNotFoundError"
          /\ pc' = "failed"
          /\ UNCHANGED processed_dir
       \/ /\ filename \in DOMAIN cleaned_dir
          /\ processed_dir' =
                 to_csv(processed_dir, filename,
                        DatetimeCsvRows(
                            detect_break_violations(cleaned_dir[filename].table)))
          /\ pc' = "detected"
          /\ UNCHANGED error
    /\ UNCHANGED <<filename, df, df_summary, df_violations, monthly_dir,
                   detailed_dir, aggregated_dir, report_year, ytd_df, emp_ytd_df,
                   extVars, reported, raw_dir, cleaned_dir, missing_log_dir,
                   cleaned_df, runs, procs>>

\* Step 3, generate_monthly_violation_report(filename): reads data/processed,
\* builds the summary and saves it
MainGenerateMonthlyReport ==
    /\ pc = "detected"
    /\ LET result ==
               build_violation_summary(read_rows(processed_dir[filename].table))
       IN  \/ /\ result.raised # "none"
              /\ error' = result.raised
              /\ pc' = "failed"
              /\ UNCHANGED monthly_dir
           \/ /\ result.raised = "none"
              /\ monthly_dir' = to_csv(monthly_dir, filename, result.value)
              /\ pc' = "reported"
              /\ UNCHANGED error
    /\ UNCHANGED <<filename, df, df_summary, df_violations, detailed_dir,
                   aggregated_dir, report_year, ytd_df, emp_ytd_df, extVars,
                   reported, mainVars, procs>>

\* Step 4, df = load_violation_summary(filename), printed; step 5 is next
MainLoadViolationSummary ==
    /\ pc = "reported"
    /\ df' = monthly_dir[filename].table
    /\ pc' = "ytd_start"
    /\ UNCHANGED <<error, filename, df_summary, df_violations, monthly_dir,
                   detailed_dir, aggregated_dir, report_year, ytd_df, emp_ytd_df,
                   extVars, reported, mainVars, procs>>

\* Step 6, process_employee_level_analysis(filename), after step 5 returned a
\* table or None: reads data/processed, saves the detailed and the aggregated
\* report; step 7 is next
MainProcessEmployeeLevelAnalysis ==
    /\ pc \in {"ytd_done", "ytd_none"}
    /\ df_violations' = ViolationList(read_rows(processed_dir[filename].table))
    /\ detailed_dir' =
           to_csv(detailed_dir, filename,
                  [i \in DOMAIN df_violations' |-> NoIndex(df_violations'[i])])
    /\ aggregated_dir' =
           to_csv(aggregated_dir, filename,
                  aggregate_employee_violations(df_violations'))
    /\ pc' = "emp_ytd_start"
    /\ UNCHANGED <<error, filename, df, df_summary, monthly_dir, report_year,
                   ytd_df, emp_ytd_df, extVars, reported, mainVars, procs>>

(***************************************************************************)
(* One run of main() on folders that hold the raw file of the month or     *)
(* not, a cleaned file saved earlier or not, and a report of another month *)
(***************************************************************************)
\* rows of a raw or cleaned file of a run of main()
MaxMainRows == 1

\* the cells of the raw files
MainClockIn == {Empty, <<8, 0, 0>>}
MainClockOut == {<<15, 0, 0>>}
MainLunchStart == {Empty, <<12, 0, 0>>}
MainLunchEnd == {Empty, <<14, 51, 0>>}

\* the rows of the raw file of a month
MainRawRows(stem) ==
    [employee_id : {1}, date : {<<stem[1], stem[2], 1>>}, clock_in : MainClockIn,
     clock_out : MainClockOut, lunch_start : MainLunchStart,
     lunch_end : MainLunchEnd, waiver_signed : {FALSE}]

\* the raw files of a month of up to n rows
RawFilesUpTo(stem, n) ==
    UNION {{File(s) : s \in [1..k -> MainRawRows(stem)]} : k \in 0..n}

\* the cleaned files of a month: what save_clean_data writes of the frames
\* clean_data returns
CleanedFilesUpTo(stem, n) ==
    {File(CleanCsvRows(clean_data(f.table))) : f \in RawFilesUpTo(stem, n)}

\* a folder that holds nothing or one file under a stem
FolderOfOne(stem, files) == {NoDir} \cup {to_csv(NoDir, stem, f.table) : f \in files}

\* a report folder holding a file of another month, readable or not
ForeignFolder(stem, files) ==
    {[k \in {stem} |-> f] : f \in {Unreadable} \cup files}

\* the file name main() is started with
MainFilename == <<ReportYear, 7>>

InitMain ==
    /\ pc = "start"
    /\ error = "none"
    /\ filename = MainFilename
    /\ df = NoTable
    /\ df_summary = NoTable
    /\ df_violations = NoTable
    /\ detailed_dir = NoDir
    /\ report_year = 0
    /\ ytd_df = NoTable
    /\ emp_ytd_df = NoTable
    /\ ExtInit
    /\ raw_dir \in FolderOfOne(filename, RawFilesUpTo(filename, MaxMainRows))
    /\ cleaned_dir \in FolderOfOne(filename, CleanedFilesUpTo(filename, MaxMainRows))
    /\ processed_dir = NoDir
    /\ missing_log_dir = NoDir
    /\ cleaned_df = NoTable
    /\ runs = 1
    /\ procs = << >>
    /\ \/ monthly_dir = NoDir /\ aggregated_dir = NoDir
       \/ /\ monthly_dir \in ForeignFolder(<<ReportYear - 1, 12>>,
                                SummaryFilesUpTo(<<ReportYear - 1, 12>>, 1))
          /\ aggregated_dir = NoDir
       \/ /\ monthly_dir = NoDir
          /\ aggregated_dir \in ForeignFolder(<<ReportYear, 8>>,
                                   AggregatedFilesUpTo(<<ReportYear, 8>>, 1))

NextMain ==
    \/ MainCleanData
    \/ MainDetectBreakViolations
    \/ MainGenerateMonthlyReport
    \/ MainLoadViolationSummary
    \/ CompileYtd
    \/ MainProcessEmployeeLevelAnalysis
    \/ CompileEmployeeYtd

SpecMain == InitMain /\ [][NextMain]_vars

(***************************************************************************)
(* main() run month after month: before each run the raw file of the month *)
(* is put under data/raw, and its cleaned form is saved under data/cleaned *)
(* or not                                                                  *)
(***************************************************************************)
\* runs of main() in one behaviour
MaxRuns == 2

\* the rows of the raw file of a month in these runs: a shift with a lunch on
\* time or without one
RunRawRows(stem) ==
    [employee_id : {1}, date : {<<stem[1], stem[2], 1>>}, clock_in : {<<8, 0, 0>>},
     clock_out : MainClockOut, lunch_start : MainLunchStart, lunch_end : {Empty},
     waiver_signed : {FALSE}]

\* main() is started again with the file name of a month, after a run has ended
MainNextRun ==
    /\ runs < MaxRuns
    /\ pc \in {"failed", "emp_ytd_done", "emp_ytd_none"}
    /\ \E stem \in RunStems, k \in 0..MaxMainRows :
          \E s \in [1..k -> RunRawRows(stem)] :
              /\ filename' = stem
              /\ raw_dir' = to_csv(raw_dir, stem, s)
              /\ \/ UNCHANGED cleaned_dir
                 \/ cleaned_dir' = save_clean_data(cleaned_dir, stem, clean_data(s))
    /\ pc' = "start"
    /\ error' = "none"
    /\ runs' = runs + 1
    /\ df' = NoTable
    /\ df_violations' = NoTable
    /\ ytd_df' = NoTable
    /\ emp_ytd_df' = NoTable
    /\ cleaned_df' = NoTable
    /\ report_year' = 0
    /\ UNCHANGED <<df_summary, monthly_dir, detailed_dir, aggregated_dir, extVars,
                   reported, processed_dir, missing_log_dir, procs>>

InitRuns ==
    /\ pc = "start"
    /\ error = "none"
    /\ df = NoTable
    /\ df_summary = NoTable
    /\ df_violations = NoTable
    /\ monthly_dir = NoDir
    /\ detailed_dir = NoDir
    /\ aggregated_dir = NoDir
    /\ report_year = 0
    /\ ytd_df = NoTable
    /\ emp_ytd_df = NoTable
    /\ ExtInit
    /\ \E stem \in RunStems, k \in 0..MaxMainRows :
          \E s \in [1..k -> RunRawRows(stem)] :
              /\ filename = stem
              /\ raw_dir = to_csv(NoDir, stem, s)
              /\ \/ cleaned_dir = NoDir
                 \/ cleaned_dir = save_clean_data(NoDir, stem, clean_data(s))
    /\ processed_dir = NoDir
    /\ missing_log_dir = NoDir
    /\ cleaned_df = NoTable
    /\ runs = 1
    /\ procs = << >>

NextRuns == NextMain \/ MainNextRun

SpecRuns == InitRuns /\ [][NextRuns]_vars

(***************************************************************************)
(* Two runs of main() for different months at the same time, from step 3   *)
(* to step 5 (main.py:54-63): each run is a process with its own locals;   *)
(* the report folders are shared. A file is written by to_csv in two       *)
(* steps: open() creates or truncates it, then the rows are written.       *)
(***************************************************************************)
RaceRuns == {1, 2}

\* the file name of each run
RaceFilename(p) == IF p = 1 THEN <<ReportYear, 7>> ELSE <<ReportYear, 8>>

\* a file that open(path, "w") has just created or truncated: read_csv raises
\* EmptyDataError on it
Truncated == Unreadable

\* the names an order of listing holds
NamesOf(order) == {order[i] : i \in DOMAIN order}

\* the processed files of a month: the classified rows of up to n shifts
ProcessedFilesUpTo(stem, n) ==
    UNION {{File(DatetimeCsvRows(detect_break_violations(
                CleanCsvRows(clean_data(s))))) : s \in [1..k -> RunRawRows(stem)]} :
           k \in 0..n}

\* what the race leaves alone
raceFrame == <<pc, error, filename, df, df_summary, df_violations, detailed_dir,
               aggregated_dir, report_year, ytd_df, emp_ytd_df, sorting, returned,
               reported, mainVars>>

\* generate_monthly_violation_report up to the open() inside to_csv: the
\* processed table is loaded, the summary built, the summary file truncated
RaceOpenSummary(p) ==
    /\ procs[p].pc = "detected"
    /\ LET result == build_violation_summary(
                         read_rows(processed_dir[procs[p].filename].table))
       IN  \/ /\ result.raised # "none"
              /\ procs' = [procs EXCEPT ![p].pc = "failed",
                                        ![p].error = result.raised]
              /\ UNCHANGED monthly_dir
           \/ /\ result.raised = "none"
              /\ procs' = [procs EXCEPT ![p].pc = "summary_open",
                                        ![p].df_summary = result.value]
              /\ monthly_dir' =
                     [k \in DOMAIN monthly_dir \cup {procs[p].filename} |->
                         IF k = procs[p].filename THEN Truncated
                         ELSE monthly_dir[k]]
    /\ UNCHANGED <<yearly_dir, listing, raceFrame>>

\* the rows of the summary reach the file
RaceWriteSummary(p) ==
    /\ procs[p].pc = "summary_open"
    /\ monthly_dir' = to_csv(monthly_dir, procs[p].filename, procs[p].df_summary)
    /\ procs' = [procs EXCEPT ![p].pc = "reported"]
    /\ UNCHANGED <<yearly_dir, listing, raceFrame>>

\* df = load_violation_summary(filename), printed
RaceLoadViolationSummary(p) ==
    /\ procs[p].pc = "reported"
    /\ procs' = [procs EXCEPT ![p].pc = "ytd_start"]
    /\ UNCHANGED <<monthly_dir, yearly_dir, listing, raceFrame>>

\* compile_ytd_violation_summary: all_summaries = [] and os.listdir(report_folder)
RaceListdir(p) ==
    /\ procs[p].pc = "ytd_start"
    /\ \E order \in Listings(listing, YtdReportFolder, monthly_dir) :
          /\ listing' =
                 Remember(listing, <<YtdReportFolder, DOMAIN monthly_dir>>, order)
          /\ procs' = [procs EXCEPT ![p].pc = "ytd_reading",
                                    ![p].listed = order,
                                    ![p].todo = order,
                                    ![p].all_summaries = << >>]
    /\ UNCHANGED <<monthly_dir, yearly_dir, raceFrame>>

\* one turn of the loop: pd.read_csv of the next entry, appended; a failure of
\* read_csv ends the run
RaceReadCsv(p) ==
    /\ procs[p].pc = "ytd_reading"
    /\ procs[p].todo # << >>
    /\ LET fname == Head(procs[p].todo)
       IN  IF monthly_dir[fname].readable
           THEN procs' = [procs EXCEPT
                             ![p].todo = Tail(@),
                             ![p].all_summaries = Append(@, monthly_dir[fname].table)]
           ELSE procs' = [procs EXCEPT ![p].pc = "failed", ![p].error = "read_csv"]
    /\ UNCHANGED <<monthly_dir, yearly_dir, listing, raceFrame>>

\* after the loop: None is returned if nothing was read, else the tables are
\* concatenated and to_csv opens ytd_report_compiled.csv
RaceOpenYtd(p) ==
    /\ procs[p].pc = "ytd_reading"
    /\ procs[p].todo = << >>
    /\ IF procs[p].all_summaries = << >>
       THEN /\ procs' = [procs EXCEPT ![p].pc = "ytd_none"]
            /\ UNCHANGED yearly_dir
       ELSE /\ procs' = [procs EXCEPT ![p].pc = "ytd_open",
                                      ![p].ytd_df = concat(procs[p].all_summaries)]
            /\ yearly_dir' =
                   [k \in DOMAIN yearly_dir \cup {YtdFile} |->
                       IF k = YtdFile THEN Truncated ELSE yearly_dir[k]]
    /\ UNCHANGED <<monthly_dir, listing, raceFrame>>

\* the rows of the year-to-date table reach the file, from its start; if the
\* other run has written rows since this run opened the file, what remains of
\* them after this run's rows makes a file that is this run's table or garbage
RaceWriteYtd(p) ==
    /\ procs[p].pc = "ytd_open"
    /\ \/ yearly_dir' = to_csv(yearly_dir, YtdFile, procs[p].ytd_df)
       \/ /\ yearly_dir[YtdFile].readable
          /\ yearly_dir' = [yearly_dir EXCEPT ![YtdFile] = Unreadable]
    /\ procs' = [procs EXCEPT ![p].pc = "done"]
    /\ UNCHANGED <<monthly_dir, listing, raceFrame>>

\* a run about to start step 3
RaceProcess(p) ==
    [pc |-> "detected", error |-> "none", filename |-> RaceFilename(p),
     df_summary |-> NoTable, listed |-> << >>, todo |-> << >>,
     all_summaries |-> << >>, ytd_df |-> NoTable]

\* both runs have classified their batch; no report has been written
InitRace ==
    /\ pc = "race"
    /\ error = "none"
    /\ filename = MainFilename
    /\ df = NoTable
    /\ df_summary = NoTable
    /\ df_violations = NoTable
    /\ monthly_dir = NoDir
    /\ detailed_dir = NoDir
    /\ aggregated_dir = NoDir
    /\ report_year = ReportYear
    /\ ytd_df = NoTable
    /\ emp_ytd_df = NoTable
    /\ ExtInit
    /\ raw_dir = NoDir
    /\ cleaned_dir = NoDir
    /\ \E f1 \in ProcessedFilesUpTo(RaceFilename(1), MaxMainRows),
          f2 \in ProcessedFilesUpTo(RaceFilename(2), MaxMainRows) :
          processed_dir =
              [k \in {RaceFilename(1), RaceFilename(2)} |->
                  IF k = RaceFilename(1) THEN f1 ELSE f2]
    /\ missing_log_dir = NoDir
    /\ cleaned_df = NoTable
    /\ runs = 2
    /\ procs = [p \in RaceRuns |-> RaceProcess(p)]

NextRace ==
    \E p \in RaceRuns :
        \/ RaceOpenSummary(p)
        \/ RaceWriteSummary(p)
        \/ RaceLoadViolationSummary(p)
        \/ RaceListdir(p)
        \/ RaceReadCsv(p)
        \/ RaceOpenYtd(p)
        \/ RaceWriteYtd(p)

SpecRace == InitRace /\ [][NextRace]_vars

(***************************************************************************)
(* Properties                                                              *)
(***************************************************************************)
Classified == pc = "classified"

(***************************************************************************)
(* C1: after check_for_violation, lunch_needed is true exactly when        *)
(* (no waiver and shift length >= 300) or (waiver and shift length > 360). *)
(***************************************************************************)
C1_LunchNeeded ==
    Classified =>
        \A i \in DOMAIN df :
            df[i].lunch_needed <=>
                \/ (df[i].waiver_signed = FALSE /\ df[i].clock_out - df[i].clock_in >= 300)
                \/ (df[i].waiver_signed = TRUE /\ df[i].clock_out - df[i].clock_in > 360)

\* a waiver shift of exactly 360 minutes, classified as needing no lunch
C1_Witness ==
    /\ Classified
    /\ \E i \in DOMAIN df :
        /\ df[i].waiver_signed
        /\ df[i].shift_length_minutes = 360
        /\ ~df[i].lunch_needed

(***************************************************************************)
(* C2: violation_reason equals the first match of: missed_lunch if lunch   *)
(* is needed and lunch_start is absent; late_lunch_no_waiver if needed, no *)
(* waiver and lunch_start >= clock_in + 5h; late_lunch_waiver if needed,   *)
(* waiver and lunch_start > clock_in + 6h; otherwise no_violation.         *)
(***************************************************************************)
FirstMatch(r) ==
    LET len == r.clock_out - r.clock_in
        needed == (~r.waiver_signed /\ len >= 300) \/ (r.waiver_signed /\ len > 360)
    IN  IF needed /\ r.lunch_start = NaT THEN "missed_lunch"
        ELSE IF needed /\ ~r.waiver_signed /\ r.lunch_start >= r.clock_in + 300
            THEN "late_lunch_no_waiver"
        ELSE IF needed /\ r.waiver_signed /\ r.lunch_start > r.clock_in + 360
            THEN "late_lunch_waiver"
        ELSE "no_violation"

Reasons == {"no_violation", "missed_lunch", "late_lunch_no_waiver", "late_lunch_waiver"}

C3_ReasonAndFlag ==
    Classified =>
        \A i \in DOMAIN df :
            /\ df[i].violation_reason \in Reasons
            /\ df[i].violation_flag <=> (df[i].violation_reason # "no_violation")

\* a shift that needs a lunch, has one in time, and is not flagged
C3_Witness ==
    /\ Classified
    /\ \E i \in DOMAIN df :
        /\ df[i].lunch_needed
        /\ df[i].violation_reason = "no_violation"
        /\ ~df[i].violation_flag

(***************************************************************************)
(* C4: create_violation_list returns exactly the rows whose violation_flag *)
(* is true: every violating shift appears once, with all its columns       *)
(* unchanged, and no row with violation_flag false appears.                *)
(***************************************************************************)
Listed == pc \in {"listed", "aggregated"}

C4_ViolationList ==
    Listed =>
        /\ \A i \in DOMAIN df :
              df[i].violation_flag =>
                  /\ Cardinality({k \in DOMAIN df_violations :
                                     df_violations[k].index = df[i].index}) = 1
                  /\ \E k \in DOMAIN df_violations : df_violations[k] = df[i]
        /\ \A k \in DOMAIN df_violations :
              /\ df_violations[k].violation_flag
              /\ \E i \in DOMAIN df : df[i] = df_violations[k]

\* a batch with a violating and a compliant shift: one kept, one dropped
C4_Witness ==
    /\ Listed
    /\ Len(df_violations) = 1
    /\ \E i \in DOMAIN df : ~df[i].violation_flag

(***************************************************************************)
(* C5: the aggregated table has exactly one row for each distinct          *)
(* employee_id that occurs in the violation rows, and no row for an        *)
(* employee without a violating shift in the batch.                        *)
(***************************************************************************)
Aggregated == pc = "aggregated"

AggregatedTable == aggregated_dir[filename].table

C5_OneRowPerViolator ==
    Aggregated =>
        /\ \A e \in {df_violations[i].employee_id : i \in DOMAIN df_violations} :
              Cardinality({k \in DOMAIN AggregatedTable :
                              AggregatedTable[k].employee_id = e}) = 1
        /\ \A k \in DOMAIN AggregatedTable :
              \E i \in DOMAIN df :
                  /\ df[i].employee_id = AggregatedTable[k].employee_id
                  /\ df[i].violation_flag

\* one violator in the table, and a compliant employee of the batch absent from it
C5_Witness ==
    /\ Aggregated
    /\ Len(AggregatedTable) = 1
    /\ \E i \in DOMAIN df :
          /\ ~df[i].violation_flag
          /\ df[i].employee_id # AggregatedTable[1].employee_id

(***************************************************************************)
(* C6: in every row of the aggregated table each reason column is the      *)
(* number of that employee's violation rows with that reason (0 when the   *)
(* reason does not occur), and total_violations is the sum of the three.   *)
(***************************************************************************)
C6_CountsAndTotal ==
    Aggregated =>
        \A k \in DOMAIN AggregatedTable :
            LET row == AggregatedTable[k]
                n(reason) ==
                    Cardinality({i \in DOMAIN df_violations :
                        /\ df_violations[i].employee_id = row.employee_id
                        /\ df_violations[i].violation_reason = reason})
            IN  /\ row.missed_lunch = n("missed_lunch")
                /\ row.late_lunch_no_waiver = n("late_lunch_no_waiver")
                /\ row.late_lunch_waiver = n("late_lunch_waiver")
                /\ row.total_violations =
                       row.missed_lunch + row.late_lunch_no_waiver + row.late_lunch_waiver

\* an employee with a late lunch under a waiver, while no employee missed a lunch
C6_Witness ==
    /\ Aggregated
    /\ \E k \in DOMAIN AggregatedTable :
          /\ AggregatedTable[k].late_lunch_waiver >= 1
          /\ AggregatedTable[k].total_violations >= 1
    /\ \A i \in DOMAIN df_violations : df_violations[i].violation_reason # "missed_lunch"
    /\ \A k \in DOMAIN AggregatedTable : AggregatedTable[k].missed_lunch = 0

(***************************************************************************)
(* C7: for a non-empty classified batch build_violation_summary returns    *)
(* one row: total_shifts is the number of rows, violations the number of   *)
(* rows with violation_flag true, and each reason column the number of     *)
(* rows with that reason, 0 when the reason does not occur.                *)
(***************************************************************************)
Summarized == pc \in {"summarized", "summary_saved", "listed", "aggregated"}

C7_MonthlySummary ==
    (Summarized /\ Len(df) > 0) =>
        /\ Len(df_summary) = 1
        /\ df_summary[1].total_shifts = Len(df)
        /\ df_summary[1].violations =
               Cardinality({i \in DOMAIN df : df[i].violation_flag})
        /\ \A reason \in {"missed_lunch", "late_lunch_no_waiver", "late_lunch_waiver"} :
               df_summary[1][reason] =
                   Cardinality({i \in DOMAIN df : df[i].violation_reason = reason})

\* a batch with one violation among two shifts: a reason counted, the others 0
C7_Witness ==
    /\ Summarized
    /\ Len(df) = 2
    /\ df_summary[1].violations = 1
    /\ df_summary[1].late_lunch_no_waiver = 1
    /\ df_summary[1].missed_lunch = 0

(***************************************************************************)
(* C8: compile_ytd_violation_summary for a target year returns exactly the *)
(* rows of the monthly summary artifacts of that year, each once, and no   *)
(* row of any other file.                                                  *)
(***************************************************************************)
YtdDone == pc = "ytd_done"

C8_OnlyTargetYear ==
    YtdDone =>
        LET target == {k \in DOMAIN monthly_dir : k[1] = report_year}
        IN  /\ Len(ytd_df) = Cardinality(target)
            /\ \A k \in target :
                  Cardinality({i \in DOMAIN ytd_df :
                                  ytd_df[i] = monthly_dir[k].table[1]}) = 1
            /\ \A i \in DOMAIN ytd_df : ytd_df[i].month[1] = report_year

(***************************************************************************)
(* C9: compile_employee_ytd produces exactly one row per distinct          *)
(* employee_id that appears in any monthly aggregated artifact, and each   *)
(* numeric column of the row is the sum of that column over all of the     *)
(* employee's monthly rows.                                                *)
(***************************************************************************)
EmpYtdDone == pc = "emp_ytd_done"

\* the sum of column c over the rows of employee e in all the monthly artifacts,
\* counted as the number of units <<file, row, n>>
MonthlySum(e, c) ==
    Cardinality(UNION {UNION {
        {<<k, i, n>> : n \in 1..(IF aggregated_dir[k].table[i].employee_id = e
                                 THEN aggregated_dir[k].table[i][c] ELSE 0)}
        : i \in DOMAIN aggregated_dir[k].table} : k \in DOMAIN aggregated_dir})

C9_EmployeeYtdSums ==
    EmpYtdDone =>
        /\ \A e \in Employees :
              Cardinality({i \in DOMAIN emp_ytd_df : emp_ytd_df[i].employee_id = e}) =
                  IF \E k \in DOMAIN aggregated_dir :
                        \E i \in DOMAIN aggregated_dir[k].table :
                            aggregated_dir[k].table[i].employee_id = e
                  THEN 1 ELSE 0
        /\ \A i \in DOMAIN emp_ytd_df :
              /\ emp_ytd_df[i].employee_id \in Employees
              /\ \A c \in {"missed_lunch", "late_lunch_no_waiver", "late_lunch_waiver",
                           "total_violations"} :
                    emp_ytd_df[i][c] = MonthlySum(emp_ytd_df[i].employee_id, c)

\* an employee with violations in two months: one row, holding the sum
C9_Witness ==
    /\ EmpYtdDone
    /\ \E i \in DOMAIN emp_ytd_df :
          /\ emp_ytd_df[i].total_violations >= 2
          /\ Cardinality({k \in DOMAIN aggregated_dir :
                \E j \in DOMAIN aggregated_dir[k].table :
                    aggregated_dir[k].table[j].employee_id = emp_ytd_df[i].employee_id}) >= 2

C12_FailsOnNonPositiveShift ==
    pc # "loaded" =>
        \A i \in DOMAIN df :
            /\ df[i].clock_out <= df[i].clock_in => error = "DataQualityError"
            /\ df[i].shift_length_minutes > 0

(***************************************************************************)
(* C13, failing with EmptyBatchError: build_violation_summary on a batch   *)
(* with zero rows fails with an EmptyBatchError, and no summary row has an *)
(* undefined pct_violations.                                               *)
(***************************************************************************)
PastSummary == pc \notin {"loaded", "length", "classified"}

C13_EmptyBatchError ==
    /\ (PastSummary /\ Len(df) = 0) => (pc = "failed" /\ error = "EmptyBatchError")
    /\ \A i \in DOMAIN df_summary : df_summary[i].pct_violations # NaN

(***************************************************************************)
(* C13, failing with IndexError: build_violation_summary on a batch with   *)
(* zero rows fails with the IndexError of reading the first row's date and *)
(* returns nothing; no summary row has an undefined pct_violations.        *)
(***************************************************************************)
C13_EmptyBatchIndexError ==
    /\ (PastSummary /\ Len(df) = 0) =>
           (pc = "failed" /\ error = "IndexError" /\ df_summary = NoTable)
    /\ \A i \in DOMAIN df_summary : df_summary[i].pct_violations # NaN

\* the summary of a batch without rows was asked for, and the run failed
C13_Witness ==
    /\ pc = "failed"
    /\ Len(df) = 0
    /\ error = "IndexError"

(***************************************************************************)
(* C16: build_violation_summary on a batch whose dates span more than one  *)
(* year-month surfaces a DataQualityError instead of returning a summary   *)
(* row labelled with the first row's month.                                *)
(***************************************************************************)
MixedMonths(d) ==
    \E i, j \in DOMAIN d : <<d[i].date[1], d[i].date[2]>> # <<d[j].date[1], d[j].date[2]>>

C16_MixedMonthsSurfaced ==
    (PastSummary /\ MixedMonths(df)) =>
        (pc = "failed" /\ error = "DataQualityError" /\ df_summary = NoTable)

(***************************************************************************)
(* C17: for every shift at most one of the three overwrite conditions of   *)
(* check_for_violation holds, also when lunch_start is absent, so the      *)
(* three overwrites give the same violation_reason in any order.           *)
(***************************************************************************)
Overwrites ==
    <<"missed_lunch", "late_lunch_no_waiver", "late_lunch_waiver">>

OverwriteMask(r, k) ==
    CASE k = 1 -> MissedLunchMask(r)
      [] k = 2 -> LateNoWaiverMask(r)
      [] k = 3 -> LateWaiverMask(r)

\* violation_reason after the overwrites are applied in the order given
ReasonInOrder(r, order) ==
    LET r0 == [r EXCEPT !.violation_reason = "no_violation"]
        r1 == SetReason(r0, OverwriteMask(r0, order[1]), Overwrites[order[1]])
        r2 == SetReason(r1, OverwriteMask(r1, order[2]), Overwrites[order[2]])
        r3 == SetReason(r2, OverwriteMask(r2, order[3]), Overwrites[order[3]])
    IN  r3.violation_reason

C17_OverwritesExclusive ==
    Classified =>
        \A i \in DOMAIN df :
            /\ Cardinality({k \in 1..3 : OverwriteMask(df[i], k)}) <= 1
            /\ \A order \in Permutations(1..3) :
                  ReasonInOrder(df[i], order) = df[i].violation_reason

\* a needed lunch that is absent, no waiver: only the missed-lunch condition holds
C17_Witness ==
    /\ Classified
    /\ \E i \in DOMAIN df :
          /\ df[i].lunch_needed
          /\ ~df[i].waiver_signed
          /\ df[i].lunch_start = NaT
          /\ MissedLunchMask(df[i])
          /\ ~LateNoWaiverMask(df[i])
          /\ df[i].violation_reason = "missed_lunch"

(***************************************************************************)
(* C11: a compile run again on unchanged monthly artifacts returns and     *)
(* writes the table the first run returned, rows and order alike, and the  *)
(* file a compile writes is never among the files it reads.                *)
(***************************************************************************)
C11_RerunIdentical ==
    /\ YtdFile \notin DOMAIN monthly_dir
    /\ EmployeeYtdFile \notin DOMAIN aggregated_dir
    /\ \A i, j \in DOMAIN returned : returned[i] = returned[j]
    /\ pc = "ytd_done" =>
           yearly_dir[YtdFile] = File(returned[Len(returned)].value)
    /\ pc = "emp_ytd_done" =>
           yearly_dir[EmployeeYtdFile] = File(returned[Len(returned)].value)

\* the summary compile has run twice over two or more monthly summaries
C11_Witness ==
    /\ pc = "ytd_done"
    /\ Len(returned) = 2
    /\ Len(ytd_df) >= 2
    /\ returned[2].value = ytd_df

(***************************************************************************)
(* C14: failures in a run of main()                                        *)
(***************************************************************************)
\* the inputs on which a step of a stage fails
RawMissing == filename \notin DOMAIN raw_dir
CleanedMissing == filename \notin DOMAIN cleaned_dir
EmptyBatch == ~CleanedMissing /\ cleaned_dir[filename].table = << >>
SummaryUnreadable == \E k \in DOMAIN monthly_dir : ~monthly_dir[k].readable
UnreadableAggregates == {k \in DOMAIN aggregated_dir : ~aggregated_dir[k].readable}

\* no artifact of step 5, 6 or 7 of this run has been written
NothingCompiled ==
    /\ yearly_dir = NoDir
    /\ detailed_dir = NoDir
    /\ filename \notin DOMAIN aggregated_dir

\* Every failure of steps 1 to 6 ends the run where it happens: the run is failed
\* exactly when an exception was raised, a stage whose input fails is the last
\* one to run, no artifact of a later stage exists, the artifacts of the earlier
\* stages are still there, and no compile is invoked twice.
FailuresAbort ==
    /\ (error # "none") <=> (pc = "failed")
    /\ Len(returned) <= 2
    /\ RawMissing =>
          /\ pc \in {"start", "failed"}
          /\ missing_log_dir = NoDir /\ processed_dir = NoDir
          /\ filename \notin DOMAIN monthly_dir /\ NothingCompiled
    /\ CleanedMissing =>
          /\ pc \in {"start", "cleaned", "failed"}
          /\ processed_dir = NoDir
          /\ filename \notin DOMAIN monthly_dir /\ NothingCompiled
    /\ EmptyBatch =>
          /\ pc \in {"start", "cleaned", "detected", "failed"}
          /\ filename \notin DOMAIN monthly_dir /\ NothingCompiled
    /\ SummaryUnreadable =>
          /\ pc \in {"start", "cleaned", "detected", "reported", "ytd_start", "failed"}
          /\ NothingCompiled
    /\ (pc = "failed" /\ error = "IndexError") =>
          /\ filename \in DOMAIN missing_log_dir
          /\ filename \in DOMAIN processed_dir
    /\ (pc = "failed" /\ error = "read_csv") =>
          /\ filename \in DOMAIN missing_log_dir
          /\ filename \in DOMAIN processed_dir
          /\ filename \in DOMAIN monthly_dir

\* C14: in a run of main() no stage swallows a failure: every failure, the
\* failure of reading one monthly artifact inside either year-to-date compile
\* included, ends the run, no later artifact is written and the earlier ones stay.
C14_NoStageSwallows ==
    /\ FailuresAbort
    /\ reported = << >>
    /\ UnreadableAggregates # {} =>
          /\ pc # "emp_ytd_done"
          /\ EmployeeYtdFile \notin DOMAIN yearly_dir

\* C14, amended: every failure ends the run as above, except that
\* compile_employee_ytd catches the failure of reading a monthly aggregated
\* artifact, prints it, and writes the employee year-to-date report compiled from
\* the artifacts it could read.
C14_OnlyEmployeeYtdSwallows ==
    /\ FailuresAbort
    /\ pc # "emp_ytd_done" => reported = << >> /\ EmployeeYtdFile \notin DOMAIN yearly_dir
    /\ pc = "emp_ytd_done" =>
          LET order == listing[<<AggregatedFolder, DOMAIN aggregated_dir>>]
              compiled == GroupBySum(concat(ReadReadable(aggregated_dir, order)))
              written == yearly_dir[EmployeeYtdFile].table
          IN  /\ reported = UnreadableIn(aggregated_dir, order)
              /\ {reported[i] : i \in DOMAIN reported} = UnreadableAggregates
              /\ {written[i] : i \in DOMAIN written} =
                     {compiled[i] : i \in DOMAIN compiled}

\* a run that completed although an aggregated artifact could not be read, with
\* a violator of its own month in the report
C14_Witness ==
    /\ pc = "emp_ytd_done"
    /\ reported = << <<ReportYear, 8>> >>
    /\ error = "none"
    /\ Len(yearly_dir[EmployeeYtdFile].table) = 1

(***************************************************************************)
(* C15: artifacts over several runs of main()                              *)
(***************************************************************************)
\* no run of main() is under way
BetweenRuns == pc \in {"start", "failed", "emp_ytd_done", "emp_ytd_none"}

\* the year-to-date summary has exactly one row for each month that has a
\* summary artifact, and no other row
OneRowPerMonth ==
    IF monthly_dir = NoDir THEN YtdFile \notin DOMAIN yearly_dir
    ELSE LET ytd == yearly_dir[YtdFile].table
         IN  /\ Len(ytd) = Cardinality(DOMAIN monthly_dir)
             /\ \A k \in DOMAIN monthly_dir :
                   \E i \in DOMAIN ytd :
                       /\ ytd[i] = monthly_dir[k].table[1]
                       /\ ytd[i].month = k
                       /\ \A j \in DOMAIN ytd : ytd[j].month = k => j = i

\* C15: artifacts are recomputed, not appended. After any sequence of runs of
\* main() every monthly summary artifact holds one row, that of the latest run
\* that summarised the month, and the year-to-date summary has exactly one row
\* per month processed, also when a month is run again.
C15_RecomputedNotAppended ==
    /\ \A k \in DOMAIN monthly_dir : Len(monthly_dir[k].table) = 1
    /\ pc = "emp_ytd_done" =>
          monthly_dir[filename].table =
              build_violation_summary(read_rows(DatetimeCsvRows(
                  detect_break_violations(cleaned_dir[filename].table)))).value
    /\ BetweenRuns => OneRowPerMonth

\* the second run, for the month of the first, has replaced the month's summary
\* by a different one, and the year-to-date summary still has one row
C15_Witness ==
    /\ pc = "emp_ytd_done"
    /\ runs = 2
    /\ Len(returned) = 4
    /\ DOMAIN monthly_dir = {filename}
    /\ returned[1].value # returned[3].value
    /\ yearly_dir[YtdFile].table = monthly_dir[filename].table

(***************************************************************************)
(* C18: what each stage of a run of main() computes from                   *)
(***************************************************************************)
\* C18: in one run of main() every stage consumes the artifact of the stage
\* before it in the same run: the classified table is the classification of the
\* cleaned batch clean_data produced in this run, saved and loaded, never of an
\* older cleaned file and never failing for a missing one; the monthly summary
\* and the employee tables are computed from the classified table of this run.
C18_StagesConsumeThisRun ==
    /\ (pc = "failed" /\ error = "FileNotFoundError") => RawMissing
    /\ filename \in DOMAIN processed_dir =>
          processed_dir[filename].table =
              DatetimeCsvRows(detect_break_violations(CleanCsvRows(cleaned_df)))
    /\ filename \in DOMAIN monthly_dir =>
          monthly_dir[filename].table =
              build_violation_summary(read_rows(processed_dir[filename].table)).value
    /\ filename \in DOMAIN aggregated_dir =>
          aggregated_dir[filename].table =
              aggregate_employee_violations(
                  ViolationList(read_rows(processed_dir[filename].table)))

(***************************************************************************)
(* C19: two runs at the same time                                          *)
(***************************************************************************)
BothCompleted == \A p \in RaceRuns : procs[p].pc = "done"

\* the table has a row labelled with the month
HasRow(t, month) == \E i \in DOMAIN t : t[i].month = month

\* C19: two runs of main() for different months that interleave without mutual
\* exclusion on ytd_report_compiled.csv are unsafe: both can complete with the
\* year-to-date table lacking the row of a month whose summary file exists
\* (C19_Witness). The loss is that of a stale listing: a run that completes has
\* compiled its own month, and when both have completed the table, unless the
\* two writes have garbled it, is what one of the runs compiled and has a row for
\* exactly the months that run found when it listed the folder.
C19_LostByStaleListing ==
    /\ \A p \in RaceRuns :
          procs[p].pc = "done" => HasRow(procs[p].ytd_df, procs[p].filename)
    /\ (BothCompleted /\ yearly_dir[YtdFile].readable) =>
          \E p \in RaceRuns :
              /\ yearly_dir[YtdFile].table = concat(procs[p].all_summaries)
              /\ \A k \in DOMAIN monthly_dir :
                    HasRow(yearly_dir[YtdFile].table, k) <=>
                        k \in NamesOf(procs[p].listed)

\* both runs have completed, both summary files exist, and the year-to-date
\* table has no row for one of the months
C19_Witness ==
    /\ BothCompleted
    /\ yearly_dir[YtdFile].readable
    /\ \A p \in RaceRuns : monthly_dir[RaceFilename(p)].readable
    /\ \E k \in DOMAIN monthly_dir : ~HasRow(yearly_dir[YtdFile].table, k)

====
